---- MODULE Spec2Model ----
(***************************************************************************)
(* Model of pgn-reader.py: a splitter (main) that cuts stdin into chunks,  *)
(* NUM_WORKERS daemon workers that parse a chunk with FastGameBuilder and  *)
(* replay it on a private board, and one collector (print_results) that    *)
(* prints the batches.  The two multiprocessing queues are bounded FIFOs.  *)
(*                                                                         *)
(* A line of stdin is a record [kind, toks]: kind is "blank" (isspace()),  *)
(* "hdr" (a tag pair line) or "mt" (a movetext line), and toks is the      *)
(* sequence of PGN tokens the line holds.  The line buffer of main and a   *)
(* chunk hold line NUMBERS of stdin, so that a line keeps its identity;    *)
(* the text of line n is input[n].  A position (board.fen()) is the        *)
(* sequence of moves pushed on the board since its last reset.             *)
(***************************************************************************)
EXTENDS Integers, Sequences, FiniteSets

VARIABLES
    input,          \* stdin: the whole sequence of lines (never changes)
    nread,          \* number of lines of stdin main has read
    lines,          \* main: the line buffer `lines`
    after_headers,  \* main: the flag `after_headers`
    pc,             \* main: "read" | "put" (inside in_queue.put) | "exited"
    in_queue,       \* Queue(maxsize=8) of chunks
    res_queue,      \* Queue(maxsize=8) of batches
    wpc,            \* worker -> "get" | "put" | "stopped" | "terminated"
    wbatch,         \* worker -> the batch it is about to put
    wchunk,         \* worker -> the chunk that batch was made from
    board,          \* worker -> its chess.Board (moves pushed since reset)
    wprev,          \* history: worker -> its board when it got that chunk
    taken,          \* history: the chunks got from in_queue, in order
    pushed,         \* history: the number of batches put on res_queue
    cpc,            \* collector: "get" (in its loop) | "returned"
    pos_count,      \* collector: pos_count
    bytes_count,    \* collector: bytes_count
    update,         \* collector: update
    popped,         \* history: the batches got from res_queue, in order
    out,            \* stdout: the lines printed
    err             \* stderr: one entry per progress line

vars == <<input, nread, lines, after_headers, pc, in_queue, res_queue, wpc,
          wbatch, wchunk, board, wprev, taken, pushed, cpc, pos_count,
          bytes_count, update, popped, out, err>>

-----------------------------------------------------------------------------
(* Program constants *)

NUM_WORKERS == 6

maxsize == 8

UpdateEvery == 100

Workers == 1..NUM_WORKERS

-----------------------------------------------------------------------------
(* Bounds of the model *)

\* every sequence of at most MaxLines lines is an input
MaxLines == 4

\* every concatenation of at most MaxRecords well-formed records is an input
MaxRecords == 2

\* the long input holds maxsize + Overfill records
Overfill == 2

\* the movetext of a one-record input holds at most MaxPlies elements
MaxPlies == 2

\* the collector on its own is handed at most MaxBatches batches
MaxBatches == 204

\* of which the first VariedBatches hold any of zero, one or two lines
VariedBatches == 2

-----------------------------------------------------------------------------
(* Tokens and lines *)

Tok(t, a, s) == [t |-> t, a |-> a, s |-> s]

Mv(m) == Tok("move", "", m)

Cp(s) == Tok("comment", "cp", s)

Mate(s) == Tok("comment", "mate", s)

Text == Tok("comment", "text", 0)

BeginVar == Tok("begin_variation", "", 0)

EndVar == Tok("end_variation", "", 0)

\* a token read_game reports through handle_error (an illegal or unreadable
\* move)
Bad == Tok("error", "", 0)

Blank == [kind |-> "blank", toks |-> <<>>]

Hdr == [kind |-> "hdr", toks |-> <<>>]

Mt(toks) == [kind |-> "mt", toks |-> toks]

\* "1. e4 { [%eval 0.3] } 1... e5 { [%eval -0.25] }"
MtGood == Mt(<<Mv(1), Cp(30), Mv(2), Cp(-25)>>)

\* "1. e4 { [%eval 0.3] } 1... e5 { [%eval #-3] } 2. d4"
MtMate == Mt(<<Mv(1), Cp(30), Mv(2), Mate(-3), Mv(3)>>)

\* "1. e4 { book } 1... e5 { [%eval 0.3] }"
MtText == Mt(<<Mv(1), Text, Mv(2), Cp(30)>>)

RECURSIVE SeqsUpTo(_, _)
SeqsUpTo(S, n) ==
    IF n = 0 THEN {<<>>}
    ELSE LET shorter == SeqsUpTo(S, n - 1)
         IN  shorter \cup {Append(q, x) : q \in shorter, x \in S}

RECURSIVE Flatten(_)
Flatten(ss) == IF ss = <<>> THEN <<>> ELSE Head(ss) \o Flatten(Tail(ss))

-----------------------------------------------------------------------------
(* chess.pgn nodes, comments and evaluations *)

\* GameNode.comment of a node no visit_comment has touched
NoComment == [e |-> "", s |-> 0]

\* the comment a comment token carries
CommentOf(tok) == [e |-> tok.a, s |-> tok.s]

None == [kind |-> "none", rel |-> 0, turn |-> TRUE]

\* GameNode.turn(): White is to move at the root and after an even number of
\* plies
Turn(ply) == ply % 2 = 0

\* GameNode.eval(): None unless the comment holds an [%eval ...]; the PGN
\* value is White's, the PovScore is stored from the side to move
Eval(comment, ply) ==
    IF comment.e \in {"cp", "mate"}
    THEN [kind |-> comment.e,
          rel  |-> IF Turn(ply) THEN comment.s ELSE 0 - comment.s,
          turn |-> Turn(ply)]
    ELSE None

\* PovScore.white()
White(pov) == [kind |-> pov.kind, v |-> IF pov.turn THEN pov.rel ELSE 0 - pov.rel]

\* a test that takes no score for a mate score
is_mate_Never(score) == FALSE

is_mate(score) == score.kind = "mate"

-----------------------------------------------------------------------------
(* FastGameBuilder: the visitor is [game, first, skip]; game is the root's   *)
(* comment and the chain of nodes below it; variation_stack[0] is the last   *)
(* node of the chain, or the root when there is none; skip says Skip was     *)
(* raised.                                                                   *)

begin_game ==
    [game  |-> [comment |-> NoComment, nodes |-> <<>>],
     first |-> TRUE,
     skip  |-> FALSE]

\* variation_stack[0].comment
TipComment(game) ==
    IF game.nodes = <<>> THEN game.comment
    ELSE game.nodes[Len(game.nodes)].comment

\* variation_stack[0].comment = comment
SetTipComment(game, comment) ==
    IF game.nodes = <<>> THEN [game EXCEPT !.comment = comment]
    ELSE [game EXCEPT !.nodes[Len(game.nodes)].comment = comment]

\* the callback without the fast exit
visit_comment_NoSkip(v, comment) ==
    [v EXCEPT !.game = SetTipComment(v.game, comment), !.first = FALSE]

\* the callback that tests every comment, not the first alone
visit_comment_EveryComment(v, comment) ==
    LET g == SetTipComment(v.game, comment)
    IN  IF Eval(TipComment(g), Len(g.nodes)) = None
        THEN [v EXCEPT !.game = g, !.skip = TRUE]
        ELSE [v EXCEPT !.game = g, !.first = FALSE]

visit_comment(v, comment) ==
    LET g == SetTipComment(v.game, comment)
    IN  IF v.first /\ Eval(TipComment(g), Len(g.nodes)) = None
        THEN [v EXCEPT !.game = g, !.skip = TRUE]
        ELSE [v EXCEPT !.game = g, !.first = FALSE]

visit_move(v, move) ==
    [v EXCEPT !.game.nodes = Append(@, [move |-> move, comment |-> NoComment])]

\* the callback that passes over the error
handle_error_Ignores(v) == v

\* raise Skip()
handle_error(v) == [v EXCEPT !.skip = TRUE]

begin_variation(v) == v

end_variation(v) == v

visit_nag(v) == v

visit_result(v) == v

\* the callback read_game makes for one token
Visit(v, tok) ==
    CASE tok.t = "move"            -> visit_move(v, tok.s)
      [] tok.t = "comment"         -> visit_comment(v, CommentOf(tok))
      [] tok.t = "begin_variation" -> begin_variation(v)
      [] tok.t = "end_variation"   -> end_variation(v)
      [] tok.t = "nag"             -> visit_nag(v)
      [] tok.t = "result"          -> visit_result(v)
      [] OTHER                     -> handle_error(v)

\* read_game's loop over the tokens: one callback per token, until one
\* raises Skip; calls counts the callbacks made
RECURSIVE Drive(_, _, _)
Drive(v, toks, i) ==
    IF v.skip \/ i > Len(toks) THEN [v |-> v, calls |-> i - 1]
    ELSE Drive(Visit(v, toks[i]), toks, i + 1)

-----------------------------------------------------------------------------
(* chess.pgn.read_game over a chunk *)

\* the text of a chunk (StringIO("".join(lines))): its lines, in order
ChunkText(chunk) == [i \in 1..Len(chunk) |-> input[chunk[i]]]

\* read_game first passes every leading blank line: the line it starts at
RECURSIVE SkipLeading(_, _)
SkipLeading(text, i) ==
    IF i <= Len(text) /\ text[i].kind = "blank" THEN SkipLeading(text, i + 1)
    ELSE i

\* read_game's header loop: it passes comment-free text line by line, skips
\* at most one blank line in a row, takes tag pair lines, and stops at the
\* first other line; `at` is the line the movetext starts at and `found`
\* says a game was found (some line was not skipped)
RECURSIVE HeaderScan(_, _, _, _)
HeaderScan(text, i, empties, found) ==
    IF i > Len(text) THEN [found |-> found, at |-> i]
    ELSE IF empties < 1 /\ text[i].kind = "blank"
         THEN HeaderScan(text, i + 1, empties + 1, found)
    ELSE IF text[i].kind # "hdr" THEN [found |-> TRUE, at |-> i]
    ELSE HeaderScan(text, i + 1, 0, TRUE)

\* read_game's movetext loop: the tokens of the lines from `i` up to the
\* first blank line; a tag pair line met there is no legal movetext
RECURSIVE MovetextTokens(_, _)
MovetextTokens(text, i) ==
    IF i > Len(text) \/ text[i].kind = "blank" THEN <<>>
    ELSE (IF text[i].kind = "hdr" THEN <<Bad>> ELSE text[i].toks)
         \o MovetextTokens(text, i + 1)

\* the tokens read_game hands to the visitor for a chunk
ChunkTokens(chunk) ==
    LET text == ChunkText(chunk)
    IN  MovetextTokens(text, HeaderScan(text, SkipLeading(text, 1), 0, FALSE).at)

\* read_game(chunk, Visitor=FastGameBuilder): "none" when the chunk holds no
\* game, "skip" when a callback raised Skip, else "game" with visitor.result()
read_game(chunk) ==
    LET text == ChunkText(chunk)
        hs   == HeaderScan(text, SkipLeading(text, 1), 0, FALSE)
        d    == Drive(begin_game, MovetextTokens(text, hs.at), 1)
    IN  IF ~hs.found THEN [status |-> "none", game |-> begin_game.game, calls |-> 0]
        ELSE IF d.v.skip THEN [status |-> "skip", game |-> d.v.game, calls |-> d.calls]
        ELSE [status |-> "game", game |-> d.v.game, calls |-> d.calls]

-----------------------------------------------------------------------------
(* worker_main: the replay of a parsed game *)

\* a board that is not reset between games
Reset_Keeps(b) == b

\* board.reset()
Reset(b) == <<>>

\* board.push(move)
Push(b, move) == Append(b, move)

\* board.fen(): the position is named by the moves that led to it
Fen(b) == b

\* the turn that formats the FEN before the move is pushed
WalkStep_FenBeforePush(st, game, k, src) ==
    LET node       == game.nodes[k]
        b          == Append(st.board, node.move)
        evaluation == Eval(node.comment, k)
        white_eval == White(evaluation)
    IN  IF evaluation = None \/ is_mate(white_eval)
        THEN [st EXCEPT !.board = b]
        ELSE [board |-> b,
              batch |-> Append(st.batch,
                               [src |-> src, fen |-> st.board, score |-> white_eval.v])]

\* one turn of `while game := game.next()` at node k: push the move, and
\* append "<fen>;<score>" unless the node has no evaluation or a mate score;
\* src is the chunk the line comes from (history, not part of the text)
WalkStep(st, game, k, src) ==
    LET node       == game.nodes[k]
        b          == Push(st.board, node.move)
        evaluation == Eval(node.comment, k)
        white_eval == White(evaluation)
    IN  IF evaluation = None \/ is_mate(white_eval)
        THEN [st EXCEPT !.board = b]
        ELSE [board |-> b,
              batch |-> Append(st.batch,
                               [src |-> src, fen |-> Fen(b), score |-> white_eval.v])]

RECURSIVE WalkFrom(_, _, _, _)
WalkFrom(st, game, k, src) ==
    IF k > Len(game.nodes) THEN st
    ELSE WalkFrom(WalkStep(st, game, k, src), game, k + 1, src)

\* lines 90-107: reset the board, empty batch, walk the whole chain
Walk(b, game, src) == WalkFrom([board |-> Reset(b), batch |-> <<>>], game, 1, src)

-----------------------------------------------------------------------------
(* multiprocessing.Queue(maxsize): a bounded FIFO *)

\* a put that never blocks
CanPut_Unbounded(q) == TRUE

\* put blocks while the queue holds maxsize items
CanPut(q) == Len(q) < maxsize

QPut(q, x) == Append(q, x)

\* get blocks while the queue is empty
CanGet(q) == q # <<>>

QFront(q) == Head(q)

\* a get that leaves the item on the queue
QRest_Peek(q) == q

QRest(q) == Tail(q)

-----------------------------------------------------------------------------
(* main: the splitter loop, lines 136-147 *)

\* one turn of `for line in stdin` up to in_queue.put or lines.append
ReadLine ==
    /\ pc = "read"
    /\ nread < Len(input)
    /\ nread' = nread + 1
    /\ IF input[nread + 1].kind = "blank" /\ after_headers
       THEN /\ pc' = "put"
            /\ UNCHANGED <<lines, after_headers>>
       ELSE /\ pc' = "read"
            /\ after_headers' = (after_headers \/ input[nread + 1].kind = "blank")
            /\ lines' = Append(lines, nread + 1)
    /\ UNCHANGED <<input, in_queue, res_queue, wpc, wbatch, wchunk, board,
                   wprev, taken, pushed, cpc, pos_count, bytes_count, update,
                   popped, out, err>>

\* the turn without `lines = []`
Put_KeepsLines ==
    /\ pc = "put"
    /\ Len(in_queue) < maxsize
    /\ in_queue' = Append(in_queue, lines)
    /\ lines' = Append(lines, nread)
    /\ after_headers' = FALSE
    /\ pc' = "read"
    /\ UNCHANGED <<input, nread, res_queue, wpc, wbatch, wchunk, board, wprev,
                   taken, pushed, cpc, pos_count, bytes_count, update, popped,
                   out, err>>

\* the turn that appends the blank line before it puts the buffer
Put_BlankEndsRecord ==
    /\ pc = "put"
    /\ CanPut(in_queue)
    /\ in_queue' = QPut(in_queue, Append(lines, nread))
    /\ lines' = <<>>
    /\ after_headers' = FALSE
    /\ pc' = "read"
    /\ UNCHANGED <<input, nread, res_queue, wpc, wbatch, wchunk, board, wprev,
                   taken, pushed, cpc, pos_count, bytes_count, update, popped,
                   out, err>>

\* in_queue.put(StringIO("".join(lines))) once there is room, then the rest
\* of the turn: lines = [], after_headers = False, lines.append(line)
Put ==
    /\ pc = "put"
    /\ CanPut(in_queue)
    /\ in_queue' = QPut(in_queue, lines)
    /\ lines' = <<nread>>
    /\ after_headers' = FALSE
    /\ pc' = "read"
    /\ UNCHANGED <<input, nread, res_queue, wpc, wbatch, wchunk, board, wprev,
                   taken, pushed, cpc, pos_count, bytes_count, update, popped,
                   out, err>>

\* an exit that first puts what is left in the buffer
MainExit_Flushes ==
    /\ pc = "read"
    /\ nread = Len(input)
    /\ CanPut(in_queue)
    /\ in_queue' = QPut(in_queue, lines)
    /\ lines' = <<>>
    /\ pc' = "exited"
    /\ wpc' = [w \in Workers |-> IF wpc[w] = "stopped" THEN "stopped" ELSE "terminated"]
    /\ UNCHANGED <<input, nread, after_headers, res_queue, wbatch, wchunk, board,
                   wprev, taken, pushed, cpc, pos_count, bytes_count, update,
                   popped, out, err>>

\* stdin is exhausted: main returns and the interpreter exits.  The exit
\* handler of multiprocessing terminates the daemon processes (the workers)
\* and then joins the collector, which is not a daemon.
MainExit ==
    /\ pc = "read"
    /\ nread = Len(input)
    /\ pc' = "exited"
    /\ wpc' = [w \in Workers |-> IF wpc[w] = "stopped" THEN "stopped" ELSE "terminated"]
    /\ UNCHANGED <<input, nread, lines, after_headers, in_queue, res_queue,
                   wbatch, wchunk, board, wprev, taken, pushed, cpc, pos_count,
                   bytes_count, update, popped, out, err>>

-----------------------------------------------------------------------------
(* worker_main, lines 76-109 *)

\* lines 79-107 with `except Skip` falling through to res_queue.put([])
Process_SkipPuts(chunk, b) ==
    LET r == read_game(chunk)
    IN  CASE r.status = "skip" -> [next |-> "put", board |-> b, batch |-> <<>>,
                                   status |-> r.status, calls |-> r.calls]
          [] r.status = "none" -> [next |-> "stopped", board |-> b, batch |-> <<>>,
                                   status |-> r.status, calls |-> r.calls]
          [] OTHER ->
               LET w == Walk(b, r.game, chunk[1])
               IN  [next |-> "put", board |-> w.board, batch |-> w.batch,
                    status |-> r.status, calls |-> r.calls]

\* lines 79-107 for the chunk just got: Skip leaves the worker at the top of
\* its loop, no game makes it leave the loop, a game is replayed into a batch
Process(chunk, b) ==
    LET r == read_game(chunk)
    IN  CASE r.status = "skip" -> [next |-> "get", board |-> b, batch |-> <<>>,
                                   status |-> r.status, calls |-> r.calls]
          [] r.status = "none" -> [next |-> "stopped", board |-> b, batch |-> <<>>,
                                   status |-> r.status, calls |-> r.calls]
          [] OTHER ->
               LET w == Walk(b, r.game, chunk[1])
               IN  [next |-> "put", board |-> w.board, batch |-> w.batch,
                    status |-> r.status, calls |-> r.calls]

\* in_queue.get() and everything up to res_queue.put
WorkerGet(w) ==
    /\ wpc[w] = "get"
    /\ CanGet(in_queue)
    /\ LET chunk == QFront(in_queue)
           p     == Process(chunk, board[w])
       IN  /\ in_queue' = QRest(in_queue)
           /\ wpc' = [wpc EXCEPT ![w] = p.next]
           /\ board' = [board EXCEPT ![w] = p.board]
           /\ wbatch' = [wbatch EXCEPT ![w] = p.batch]
           /\ wchunk' = [wchunk EXCEPT ![w] = IF p.next = "put" THEN chunk ELSE <<>>]
           /\ wprev' = [wprev EXCEPT ![w] = IF p.next = "put" THEN board[w] ELSE <<>>]
           /\ taken' = Append(taken, [chunk |-> chunk, status |-> p.status,
                                      calls |-> p.calls])
    /\ UNCHANGED <<input, nread, lines, after_headers, pc, res_queue, pushed,
                   cpc, pos_count, bytes_count, update, popped, out, err>>

\* res_queue.put(batch) once there is room
WorkerPut(w) ==
    /\ wpc[w] = "put"
    /\ CanPut(res_queue)
    /\ res_queue' = QPut(res_queue, wbatch[w])
    /\ wpc' = [wpc EXCEPT ![w] = "get"]
    /\ wbatch' = [wbatch EXCEPT ![w] = <<>>]
    /\ wchunk' = [wchunk EXCEPT ![w] = <<>>]
    /\ wprev' = [wprev EXCEPT ![w] = <<>>]
    /\ pushed' = pushed + 1
    /\ UNCHANGED <<input, nread, lines, after_headers, pc, in_queue, board,
                   taken, cpc, pos_count, bytes_count, update, popped, out, err>>

-----------------------------------------------------------------------------
(* print_results, lines 52-71 *)

\* len(str(n))
IntLen(n) ==
    LET m == IF n < 0 THEN 0 - n ELSE n
        d == IF m < 10 THEN 1 ELSE IF m < 100 THEN 2 ELSE IF m < 1000 THEN 3 ELSE 4
    IN  IF n < 0 THEN d + 1 ELSE d

\* len(board.fen()): the model takes every FEN to be as long as the initial
\* position's, 56 characters
FenLen(fen) == 56

\* len(res) for res = f"{fen};{score}"
StrLen(res) == FenLen(res.fen) + 1 + IntLen(res.score)

\* the count that forgets the newline print adds
RECURSIVE SumLen_NoNewline(_)
SumLen_NoNewline(batch) ==
    IF batch = <<>> THEN 0 ELSE StrLen(Head(batch)) + SumLen_NoNewline(Tail(batch))

\* what the turns of `for res in batch` add to bytes_count: len(res) + 1 each
RECURSIVE SumLen(_)
SumLen(batch) ==
    IF batch = <<>> THEN 0 ELSE StrLen(Head(batch)) + 1 + SumLen(Tail(batch))

\* printing the newest batch ahead of what was printed before
Printed_NewestFirst(o, batch) == batch \o o

\* `for res in batch: print(res)`: stdout after the batch is printed
Printed(o, batch) == o \o batch

\* one turn of the collector's `while True` loop, which no statement leaves:
\* get a batch, print it, count, report
Collect ==
    /\ cpc = "get"
    /\ CanGet(res_queue)
    /\ LET batch == QFront(res_queue)
       IN  /\ res_queue' = QRest(res_queue)
           /\ popped' = Append(popped, batch)
           /\ pos_count' = pos_count + Len(batch)
           /\ out' = Printed(out, batch)
           /\ bytes_count' = bytes_count + SumLen(batch)
           /\ IF update = UpdateEvery
              THEN /\ update' = 0
                   /\ err' = Append(err, [batches     |-> Len(popped'),
                                          pos_count   |-> pos_count',
                                          bytes_count |-> bytes_count'])
              ELSE /\ update' = update + 1
                   /\ err' = err
    /\ UNCHANGED <<input, nread, lines, after_headers, pc, in_queue, wpc,
                   wbatch, wchunk, board, wprev, taken, pushed, cpc>>

-----------------------------------------------------------------------------
(* The inputs *)

SmallAlphabet == {Blank, Hdr, MtGood, MtText}

\* every input of at most MaxLines lines
SmallInputs == SeqsUpTo(SmallAlphabet, MaxLines)

\* well-formed records: header lines, blank line, movetext lines, blank line
WFRecords ==
    { <<Hdr, Blank, MtGood, Blank>>,
      <<Hdr, Hdr, Blank, MtMate, MtGood, Blank>>,
      <<Hdr, Blank, MtText, Blank>> }

WellFormedInputs == {Flatten(rs) : rs \in SeqsUpTo(WFRecords, MaxRecords)}

\* more well-formed records than in_queue can hold
LongInput == Flatten([i \in 1..(maxsize + Overfill) |-> <<Hdr, Blank, MtText, Blank>>])

\* what may stand at place k of a movetext: a move alone, a move with one
\* comment, a move with two comments, an unreadable move, a variation
Elems(k) ==
    { <<Mv(k)>>,
      <<Mv(k), Cp(30)>>,
      <<Mv(k), Cp(-25)>>,
      <<Mv(k), Mate(-3)>>,
      <<Mv(k), Text>>,
      <<Mv(k), Cp(0), Text>>,
      <<Bad>>,
      <<BeginVar, Mv(k + 10), Cp(10), EndVar>> }

\* what may stand before the first move: nothing or a comment
RootComments == {<<>>, <<Cp(15)>>, <<Text>>}

\* the movetexts of exactly n elements
RECURSIVE MovetextsOf(_)
MovetextsOf(n) ==
    IF n = 0 THEN {<<>>}
    ELSE {m \o e : m \in MovetextsOf(n - 1), e \in Elems(n)}

Movetexts(n) == UNION {MovetextsOf(k) : k \in 0..n}

\* one well-formed record whose movetext is any of the above
RichInputs ==
    { <<Hdr, Blank, Mt(r \o m), Blank>> : r \in RootComments, m \in Movetexts(MaxPlies) }

\* a run of blank lines long enough to yield one record for every worker,
\* maxsize more to fill in_queue, and one more for main to put
BlankRun == [i \in 1..(2 * (NUM_WORKERS + maxsize + 1)) |-> Blank]

\* a record with a move and no evaluation, then a record with two
\* evaluated moves
MixedInput == <<Hdr, Blank, Mt(<<Mv(1)>>), Blank, Hdr, Blank, MtGood, Blank>>

Inputs ==
    SmallInputs \cup WellFormedInputs \cup {LongInput} \cup RichInputs
    \cup {BlankRun, MixedInput}

-----------------------------------------------------------------------------
(* The pipeline *)

\* the state after construction, whatever the input
Start ==
    /\ nread = 0
    /\ lines = <<>>
    /\ after_headers = FALSE
    /\ pc = "read"
    /\ in_queue = <<>>
    /\ res_queue = <<>>
    /\ wpc = [w \in Workers |-> "get"]
    /\ wbatch = [w \in Workers |-> <<>>]
    /\ wchunk = [w \in Workers |-> <<>>]
    /\ board = [w \in Workers |-> <<>>]
    /\ wprev = [w \in Workers |-> <<>>]
    /\ taken = <<>>
    /\ pushed = 0
    /\ cpc = "get"
    /\ pos_count = 0
    /\ bytes_count = 0
    /\ update = UpdateEvery
    /\ popped = <<>>
    /\ out = <<>>
    /\ err = <<>>

Init ==
    /\ input \in Inputs
    /\ Start

Next ==
    \/ ReadLine
    \/ Put
    \/ MainExit
    \/ \E w \in Workers : WorkerGet(w)
    \/ \E w \in Workers : WorkerPut(w)
    \/ Collect

Spec == Init /\ [][Next]_vars

-----------------------------------------------------------------------------
(* The collector on its own, handed batches by the workers *)

\* the batches a worker may put as the k-th one: lines of the Record k
ProducedBatches(k) ==
    IF k <= VariedBatches
    THEN {<<>>,
          <<[src |-> k, fen |-> <<1>>, score |-> 30]>>,
          <<[src |-> k, fen |-> <<1>>, score |-> 30],
            [src |-> k, fen |-> <<1, 2>>, score |-> -25]>>}
    ELSE {<<>>}

\* res_queue.put(batch) of some worker, once there is room
Produce ==
    /\ pushed < MaxBatches
    /\ CanPut(res_queue)
    /\ \E batch \in ProducedBatches(pushed + 1) : res_queue' = QPut(res_queue, batch)
    /\ pushed' = pushed + 1
    /\ UNCHANGED <<input, nread, lines, after_headers, pc, in_queue, wpc, wbatch,
                   wchunk, board, wprev, taken, cpc, pos_count, bytes_count,
                   update, popped, out, err>>

InitCollector ==
    /\ input = <<>>
    /\ Start

NextCollector ==
    \/ Produce
    \/ Collect

SpecCollector == InitCollector /\ [][NextCollector]_vars

-----------------------------------------------------------------------------
(* What the properties speak of *)

Range(q) == {q[i] : i \in DOMAIN q}

NoDup(q) == \A i, j \in DOMAIN q : i # j => q[i] # q[j]

IsBlank(n) == input[n].kind = "blank"

\* the number of blank lines among the first n lines of stdin
NBlanks(n) == Cardinality({i \in 1..n : IsBlank(i)})

\* the line number of the j-th blank line of stdin (0 for j = 0)
NthBlank(j) ==
    IF j = 0 THEN 0
    ELSE CHOOSE n \in 1..Len(input) : IsBlank(n) /\ NBlanks(n) = j

Interval(a, b) == [k \in 1..(b - a + 1) |-> a + k - 1]

\* the Records put on in_queue so far, in the order they were put
Enqueued == [i \in 1..Len(taken) |-> taken[i].chunk] \o in_queue

\* 1 while main is inside in_queue.put with an assembled Record
Pending == IF pc = "put" THEN 1 ELSE 0

\* main has left its loop, or is about to
SplitterDone == nread = Len(input) /\ pc # "put"

\* Block i of a well-formed input: from the line after the end of block i-1
\* to the 2i-th blank line; BlockSep(i) is the blank line between its header
\* lines and its movetext lines
BlockFirst(i) == NthBlank(2 * (i - 1)) + 1

BlockSep(i) == NthBlank(2 * i - 1)

BlockLast(i) == NthBlank(2 * i)

NBlocks == NBlanks(Len(input)) \div 2

\* stdin is K >= 0 well-formed records: one or more header lines, a blank
\* line, one or more movetext lines, a blank line
WellFormed ==
    /\ NBlanks(Len(input)) = 2 * NBlocks
    /\ Len(input) = NthBlank(2 * NBlocks)
    /\ \A i \in 1..NBlocks :
          /\ BlockFirst(i) < BlockSep(i)
          /\ BlockSep(i) + 1 < BlockLast(i)
          /\ \A n \in BlockFirst(i)..(BlockSep(i) - 1) : input[n].kind = "hdr"
          /\ \A n \in (BlockSep(i) + 1)..(BlockLast(i) - 1) : input[n].kind = "mt"

-----------------------------------------------------------------------------
(* C1 *)

\* C1 as stated: on an input of K well-formed records the Records put on
\* in_queue are, in order, the K blocks: the i-th Record holds lines of block
\* i only, in input order, and all its header and movetext lines; when the
\* splitter is done there are exactly K of them.
C1_SplitterAsStated ==
    WellFormed =>
        /\ Len(Enqueued) <= NBlocks
        /\ SplitterDone => Len(Enqueued) = NBlocks
        /\ \A i \in 1..Len(Enqueued) :
              LET r == Enqueued[i]
              IN  /\ \A k \in DOMAIN r : r[k] \in BlockFirst(i)..BlockLast(i)
                  /\ \A k \in 1..(Len(r) - 1) : r[k] < r[k + 1]
                  /\ \A n \in BlockFirst(i)..BlockLast(i) : ~IsBlank(n) => n \in Range(r)

\* C1 (amended): on an input of K well-formed records the splitter puts
\* exactly K Records on in_queue, in input order; the i-th Record holds, in
\* input order, the lines of block i but its closing blank line, and, for
\* i > 1, before them the closing blank line of block i-1.
C1_Splitter ==
    WellFormed =>
        /\ Len(Enqueued) + Pending = NBlanks(nread) \div 2
        /\ SplitterDone => Len(Enqueued) = NBlocks
        /\ \A i \in 1..Len(Enqueued) :
              Enqueued[i] = Interval(IF i = 1 THEN 1 ELSE BlockLast(i - 1),
                                     BlockLast(i) - 1)

\* two or more well-formed records have been split
C1_Witness == WellFormed /\ SplitterDone /\ Len(Enqueued) >= 2 /\ NBlocks = Len(Enqueued)

-----------------------------------------------------------------------------
(* C2 *)

\* C2: in_queue and res_queue never hold more than maxsize items, and the
\* splitter loses nothing to a full queue: every Record assembled from the
\* lines read so far is on in_queue, was taken from it, or is the one main
\* is blocked putting, which it keeps whole; the Records are in input order.
C2_Backpressure ==
    /\ Len(in_queue) <= maxsize
    /\ Len(res_queue) <= maxsize
    /\ Len(Enqueued) + Pending = NBlanks(nread) \div 2
    /\ \A i \in 1..Len(Enqueued) :
          /\ Enqueued[i] # <<>>
          /\ Enqueued[i][Len(Enqueued[i])] = NthBlank(2 * i) - 1
          /\ i > 1 => Enqueued[i][1] = Enqueued[i - 1][Len(Enqueued[i - 1])] + 1
    /\ pc = "put" =>
          /\ IsBlank(nread)
          /\ lines = Interval(NthBlank(2 * Len(Enqueued)) + (IF Len(Enqueued) = 0 THEN 1 ELSE 0),
                              nread - 1)

\* main is blocked in put on a full in_queue while no worker and no
\* collector has done anything
C2_Witness ==
    /\ pc = "put"
    /\ Len(in_queue) = maxsize
    /\ taken = <<>>
    /\ nread < Len(input)

-----------------------------------------------------------------------------
(* C3, C4 *)

\* the number of Records got so far whose read_game ended in one of `statuses`
NTaken(statuses) == Cardinality({i \in DOMAIN taken : taken[i].status \in statuses})

\* the workers between in_queue.get and the end of res_queue.put
Putting == Cardinality({w \in Workers : wpc[w] = "put"})

C4_OnlySentinelStops == \A w \in Workers : wpc[w] # "stopped"

-----------------------------------------------------------------------------
(* C5 *)

\* every line that is printed or on its way to stdout
LinesInFlight == out \o Flatten(res_queue) \o Flatten(wbatch)

\* C5: no Record is got from in_queue twice, a Record that was got is no
\* longer on the queue, no two workers work on the same Record, and no line
\* of a Batch is printed twice or printed while still held or queued.
C5_AtMostOnce ==
    /\ NoDup(Enqueued)
    /\ \A w1, w2 \in Workers :
          (w1 # w2 /\ wchunk[w1] # <<>>) => wchunk[w1] # wchunk[w2]
    /\ \A w \in Workers : wchunk[w] # <<>> =>
          /\ wchunk[w] \notin Range(in_queue)
          /\ wchunk[w] \in {taken[i].chunk : i \in DOMAIN taken}
    /\ NoDup(LinesInFlight)

\* two workers hold, at the same time, the Batches of two Records
C5_Witness ==
    \E w1, w2 \in Workers :
        /\ w1 # w2
        /\ wpc[w1] = "put" /\ wbatch[w1] # <<>>
        /\ wpc[w2] = "put" /\ wbatch[w2] # <<>>

-----------------------------------------------------------------------------
(* C6, C7 *)

\* the lines worker_main makes of a Record
LinesOf(chunk) == Process(chunk, <<>>).batch

\* every position with a centipawn evaluation of every Record put on
\* in_queue is printed
AllWritten ==
    \A i \in DOMAIN Enqueued : Range(LinesOf(Enqueued[i])) \subseteq Range(out)

\* C6: every Record enqueued is in the end processed and its positions with
\* a centipawn evaluation printed; so once no process can take a step any
\* more, no such position of an enqueued Record is left unprinted.
C6_AllWrittenAtEnd == ENABLED Next \/ AllWritten

\* main, the workers and the collector have all returned or been terminated
AllTerminated ==
    /\ pc = "exited"
    /\ \A w \in Workers : wpc[w] \in {"stopped", "terminated"}
    /\ cpc = "returned"

\* C7: the pipeline stops in the end; so once no process can take a step any
\* more, every process is terminated and none is blocked in a get.
C7_Terminates == ENABLED Next \/ AllTerminated

-----------------------------------------------------------------------------
(* C8, C9, C10 *)

IsMove(tok) == tok.t = "move"

IsComment(tok) == tok.t = "comment"

\* the places of the move tokens in toks, in order
MovePlaces(toks) == SelectSeq(Interval(1, Len(toks)), LAMBDA i : IsMove(toks[i]))

\* the annotation of the ply whose move stands at places[k]: the last
\* comment between that move and the next one, if any
Annotation(toks, places, k) ==
    LET hi == IF k < Len(places) THEN places[k + 1] ELSE Len(toks) + 1
        cs == {j \in (places[k] + 1)..(hi - 1) : IsComment(toks[j])}
    IN  IF cs = {} THEN NoComment
        ELSE CommentOf(toks[CHOOSE j \in cs : \A l \in cs : l <= j])

\* the position after plies 1..k: the moves at places[1..k], in order
PositionAfter(toks, places, k) == [j \in 1..k |-> toks[places[j]].s]

\* the PositionRecords owed to plies k..Len(places), in ply order
RECURSIVE Owed(_, _, _, _)
Owed(toks, places, k, src) ==
    IF k > Len(places) THEN <<>>
    ELSE LET a == Annotation(toks, places, k)
         IN  (IF a.e = "cp"
              THEN <<[src |-> src, fen |-> PositionAfter(toks, places, k), score |-> a.s]>>
              ELSE <<>>)
             \o Owed(toks, places, k + 1, src)

\* the Record is M >= 1 plies, each a move followed by one comment that
\* holds a centipawn evaluation, with or without an evaluation on the root
\* before
AllCentipawn(toks) ==
    LET r == IF toks # <<>> /\ IsComment(toks[1]) THEN 1 ELSE 0
    IN  /\ r = 1 => toks[1].a \in {"cp", "mate"}
        /\ Len(toks) - r >= 2
        /\ (Len(toks) - r) % 2 = 0
        /\ \A j \in 1..((Len(toks) - r) \div 2) :
              /\ IsMove(toks[r + 2 * j - 1])
              /\ IsComment(toks[r + 2 * j])
              /\ toks[r + 2 * j].a = "cp"

\* C8: a Record of M >= 1 plies that each carry a centipawn evaluation is parsed
\* to the end, and the Batch the worker puts for it has exactly M
\* PositionRecords, the k-th being the position after plies 1..k with the
\* score of ply k, sign included; a comment on the root adds none.
C8_Extraction ==
    /\ \A i \in DOMAIN taken :
          AllCentipawn(ChunkTokens(taken[i].chunk)) => taken[i].status = "game"
    /\ \A w \in Workers :
          (wpc[w] = "put" /\ AllCentipawn(ChunkTokens(wchunk[w]))) =>
             LET toks   == ChunkTokens(wchunk[w])
                 places == MovePlaces(toks)
             IN  /\ Len(wbatch[w]) = Len(places)
                 /\ \A k \in 1..Len(places) :
                       /\ wbatch[w][k].fen = PositionAfter(toks, places, k)
                       /\ wbatch[w][k].score = toks[places[k] + 1].s

\* a worker holds the Batch of a Record with an evaluated root and two
\* evaluated plies, the second with a negative score
C8_Witness ==
    \E w \in Workers :
        /\ wpc[w] = "put"
        /\ AllCentipawn(ChunkTokens(wchunk[w]))
        /\ IsComment(ChunkTokens(wchunk[w])[1])
        /\ Len(wbatch[w]) = 2
        /\ wbatch[w][2].score < 0

\* C9: in a Record that is not aborted (a ply being a move handed to the
\* visitor, its annotation the last comment that follows it), the Batch is
\* exactly the plies with a centipawn evaluation, in ply order, each with the
\* position after ALL the plies up to it: a ply with a mate score, with no
\* comment or with a comment that holds no evaluation adds no
\* PositionRecord, and its move is still on the board.
C9_Exclusion ==
    \A w \in Workers :
        wpc[w] = "put" =>
            /\ wbatch[w] = Owed(ChunkTokens(wchunk[w]), MovePlaces(ChunkTokens(wchunk[w])),
                                1, wchunk[w][1])
            /\ board[w] = PositionAfter(ChunkTokens(wchunk[w]),
                                        MovePlaces(ChunkTokens(wchunk[w])),
                                        Len(MovePlaces(ChunkTokens(wchunk[w]))))

\* a worker holds a Batch whose only PositionRecord is that of the second
\* ply, the first ply having a mate score, no comment, or a comment with no
\* evaluation after the first annotation
C9_Witness ==
    \E w \in Workers :
        /\ wpc[w] = "put"
        /\ Len(MovePlaces(ChunkTokens(wchunk[w]))) = 2
        /\ Len(wbatch[w]) = 1
        /\ Len(wbatch[w][1].fen) = 2

\* the place of the first comment in toks (0 when there is none)
FirstComment(toks) ==
    IF \E j \in DOMAIN toks : IsComment(toks[j])
    THEN CHOOSE j \in DOMAIN toks :
            IsComment(toks[j]) /\ \A l \in 1..(j - 1) : ~IsComment(toks[l])
    ELSE 0

\* the first annotation of the Record holds no evaluation
Unevaluated(toks) == FirstComment(toks) # 0 /\ toks[FirstComment(toks)].a = "text"

\* no line of the Record with first line n is printed, queued or held
NoLineOf(n) == \A l \in Range(LinesInFlight) : l.src # n

\* C10: a Record whose first annotation holds no evaluation is aborted by
\* Skip at that comment at the latest: the callback of no later token is
\* made (and, no unreadable move coming before, exactly the callbacks up to
\* that comment are made), and the Record gives no PositionRecord: no line of
\* it is held by a worker, queued or printed.
C10_FastExit ==
    \A i \in DOMAIN taken :
        LET toks == ChunkTokens(taken[i].chunk)
            f    == FirstComment(toks)
        IN  Unevaluated(toks) =>
               /\ taken[i].status = "skip"
               /\ taken[i].calls <= f
               /\ (\A l \in 1..f : toks[l].t # "error") => taken[i].calls = f
               /\ NoLineOf(taken[i].chunk[1])
               /\ \A w \in Workers : wchunk[w] # taken[i].chunk

\* a Record was aborted at its first annotation, which follows a move and is
\* followed by a move with a centipawn evaluation
C10_Witness ==
    \E i \in DOMAIN taken :
        LET toks == ChunkTokens(taken[i].chunk)
            f    == FirstComment(toks)
        IN  /\ Unevaluated(toks)
            /\ f > 1
            /\ taken[i].calls = f
            /\ \E l \in (f + 1)..(Len(toks) - 1) :
                  IsMove(toks[l]) /\ toks[l + 1].a = "cp"

-----------------------------------------------------------------------------
(* C11 *)

\* C11: stdout is the Batches the collector got, one after the other in the
\* order it got them; each of them is the whole Batch of one Record, so the
\* lines of one Record stand together, in ply order, and the lines of two
\* Records never interleave, whichever workers made them and in whatever
\* order.
C11_BatchesInOrder ==
    /\ out = Flatten(popped)
    /\ \A k \in DOMAIN popped :
          popped[k] # <<>> =>
             \E i \in DOMAIN taken :
                 /\ taken[i].chunk[1] = popped[k][1].src
                 /\ popped[k] = LinesOf(taken[i].chunk)
    /\ \A i, j \in DOMAIN out :
          (i < j /\ out[i].src = out[j].src) =>
             /\ \A k \in i..j : out[k].src = out[i].src
             /\ Len(out[i].fen) < Len(out[j].fen)

\* two Batches of two lines each are printed, the Batch of the later Record
\* first
C11_Witness ==
    /\ Len(popped) = 2
    /\ Len(popped[1]) = 2 /\ Len(popped[2]) = 2
    /\ popped[1][1].src > popped[2][1].src
    /\ Len(out) = 4

-----------------------------------------------------------------------------
(* C12 *)

\* C12: a progress line is written every UpdateEvery Batches: between two
\* progress lines that follow each other the collector has processed exactly
\* UpdateEvery Batches; and the progress lines go to stderr only, stdout
\* holding nothing but the lines of the Batches.
C12_ProgressEveryHundred ==
    /\ \A k \in 1..(Len(err) - 1) :
          err[k + 1].batches - err[k].batches = UpdateEvery
    /\ out = Flatten(popped)

-----------------------------------------------------------------------------
(* C13 *)

\* C13: a worker replays every Record from the initial position, whatever
\* its board held when it got the Record: the board after the replay holds
\* the moves of that Record and no other, and the Batch, its first
\* PositionRecord included, is the one a fresh board gives.
C13_NoBoardLeak ==
    \A w \in Workers :
        wpc[w] = "put" =>
            LET toks   == ChunkTokens(wchunk[w])
                places == MovePlaces(toks)
            IN  /\ Len(board[w]) = Len(places)
                /\ \A k \in 1..Len(places) : board[w][k] = toks[places[k]].s
                /\ wbatch[w] = LinesOf(wchunk[w])
                /\ wbatch[w] # <<>> =>
                      \E k \in 1..Len(places) :
                          wbatch[w][1].fen = PositionAfter(toks, places, k)

\* a worker whose board held the moves of an earlier Record holds the Batch
\* of the next one, which starts with the position after one move
C13_Witness ==
    \E w \in Workers :
        /\ wpc[w] = "put"
        /\ wprev[w] # <<>>
        /\ wbatch[w] # <<>>
        /\ Len(wbatch[w][1].fen) = 1

-----------------------------------------------------------------------------
(* C14, C15 *)

\* the flag after_headers once line n is dealt with: a blank line sets it
\* when it is clear and, completing a Record, clears it when it is set
RECURSIVE FlagAfter(_)
FlagAfter(n) ==
    IF n = 0 THEN FALSE
    ELSE IF IsBlank(n) THEN ~FlagAfter(n - 1)
    ELSE FlagAfter(n - 1)

\* the blank lines among the first n that are read while the flag is set
Completing(n) == {k \in 1..n : IsBlank(k) /\ FlagAfter(k - 1)}

\* the lines put on in_queue so far
EnqueuedLines == UNION {Range(Enqueued[i]) : i \in DOMAIN Enqueued}

\* C14: when the splitter has read all of stdin, it has put as many Records
\* as it read blank lines with after_headers set, and what follows the last
\* of these blank lines (that line included) is put on no queue: a trailing
\* Record that no blank line completes is never emitted.
C14_NoTrailingRecord ==
    SplitterDone =>
        LET done == Completing(Len(input))
            sent == EnqueuedLines
        IN  /\ Len(Enqueued) = Cardinality(done)
            /\ \A n \in 1..Len(input) :
                  (\A k \in done : k <= n) => n \notin sent
            /\ pc = "exited" => Range(lines) \cap sent = {}

\* main has returned with a header line, a blank line and a movetext line
\* left in its buffer, no blank line having completed that Record
C14_Witness ==
    /\ pc = "exited"
    /\ after_headers
    /\ \E i, j \in DOMAIN lines :
          i < j /\ input[lines[i]].kind = "hdr" /\ input[lines[j]].kind = "mt"

\* C15: the blank line that completes a Record (the line after the Record's
\* last, read while the flag is set) is not in that Record: it is the first
\* line of the buffer that follows and so of the next Record; every Record
\* after the first starts with a blank line, the one that completed the
\* Record before.
C15_BlankStartsNext ==
    \A i \in DOMAIN Enqueued :
        LET r == Enqueued[i]
            t == r[Len(r)] + 1
        IN  /\ t <= nread /\ IsBlank(t) /\ FlagAfter(t - 1)
            /\ t \notin Range(r)
            /\ i > 1 => IsBlank(r[1]) /\ r[1] = Enqueued[i - 1][Len(Enqueued[i - 1])] + 1
            /\ i < Len(Enqueued) => Enqueued[i + 1][1] = t
            /\ i = Len(Enqueued) => lines # <<>> /\ lines[1] = t

\* three Records are emitted, the second and the third starting with a blank
\* line and holding other lines too, and the buffer starts with the blank
\* line that completed the third
C15_Witness ==
    /\ Len(Enqueued) = 3
    /\ \A i \in 2..3 : IsBlank(Enqueued[i][1]) /\ Len(Enqueued[i]) > 2
    /\ IsBlank(lines[1])

-----------------------------------------------------------------------------
(* C16 *)

\* the Record taken i-th was aborted by the comment callback: the last
\* callback made for it is that of a comment
SkippedAtComment(i) ==
    /\ taken[i].status = "skip"
    /\ IsComment(ChunkTokens(taken[i].chunk)[taken[i].calls])

\* C16 as stated: the comment callback aborts a Record only at the first
\* comment, only when no move comes before it, and only when it holds no
\* evaluation.
C16_SkipOnlyAtRootAsStated ==
    \A i \in DOMAIN taken :
        LET toks == ChunkTokens(taken[i].chunk)
            c    == taken[i].calls
        IN  SkippedAtComment(i) =>
               /\ c = FirstComment(toks)
               /\ \A l \in 1..(c - 1) : ~IsMove(toks[l])
               /\ toks[c].a = "text"

\* C16: the comment callback aborts a Record only at the first comment of
\* the Record and only when that comment holds no evaluation, and (no
\* unreadable move coming before) it does abort there, whether the comment
\* stands on the root or after moves; no comment after the first aborts.
C16_SkipOnlyAtFirst ==
    \A i \in DOMAIN taken :
        LET toks == ChunkTokens(taken[i].chunk)
            c    == taken[i].calls
            f    == FirstComment(toks)
        IN  /\ SkippedAtComment(i) => c = f /\ toks[c].a = "text"
            /\ (Unevaluated(toks) /\ \A l \in 1..f : toks[l].t # "error") =>
                  SkippedAtComment(i) /\ c = f

\* a Record was aborted by the callback of its first comment, which stands
\* after a move
C16_Witness ==
    \E i \in DOMAIN taken :
        /\ SkippedAtComment(i)
        /\ taken[i].calls > 1
        /\ IsMove(ChunkTokens(taken[i].chunk)[taken[i].calls - 1])

-----------------------------------------------------------------------------
(* C17 *)

\* the number of variations that are open at place j of toks; a variation
\* can only start after a move (there is no move to give an alternative to
\* before), and only an open one can end
RECURSIVE Depth(_, _)
Depth(toks, j) ==
    IF j <= 1 THEN 0
    ELSE LET d   == Depth(toks, j - 1)
             tok == toks[j - 1]
         IN  IF tok.t = "begin_variation" /\ \E l \in 1..(j - 2) : IsMove(toks[l])
             THEN d + 1
             ELSE IF tok.t = "end_variation" /\ d > 0 THEN d - 1
             ELSE d

\* the places of the moves of the mainline: those inside no variation
MainlinePlaces(toks) ==
    SelectSeq(MovePlaces(toks), LAMBDA j : Depth(toks, j) = 0)

\* C17: the moves handed over between the start of a variation and its end
\* are not appended to the game: the chain the worker walks, and so the
\* moves it pushes on its board, are exactly the moves of the mainline, in
\* order.
C17_MainlineOnly ==
    \A w \in Workers :
        wpc[w] = "put" =>
            LET toks == ChunkTokens(wchunk[w])
                mp   == MainlinePlaces(toks)
            IN  board[w] = [k \in 1..Len(mp) |-> toks[mp[k]].s]

-----------------------------------------------------------------------------
(* C18 *)

\* the places of the tokens of toks that read_game reports as errors
ErrorPlaces(toks) == {l \in DOMAIN toks : toks[l].t = "error"}

\* C18: a Record with a parse error anywhere is aborted, at the error at the
\* latest, and nothing of it goes on: no line of it is held by a worker,
\* queued or printed, the positions before the error included, and no Batch
\* is put for it (no more Batches are put than Records were parsed to the
\* end).
C18_ErrorDiscards ==
    /\ \A i \in DOMAIN taken :
          LET toks == ChunkTokens(taken[i].chunk)
          IN  ErrorPlaces(toks) # {} =>
                 /\ taken[i].status = "skip"
                 /\ \A l \in ErrorPlaces(toks) : taken[i].calls <= l
                 /\ NoLineOf(taken[i].chunk[1])
                 /\ \A w \in Workers : wchunk[w] # taken[i].chunk
    /\ pushed <= NTaken({"game"})

\* a Record was aborted at a parse error that follows a move with a
\* centipawn evaluation
C18_Witness ==
    \E i \in DOMAIN taken :
        LET toks == ChunkTokens(taken[i].chunk)
            c    == taken[i].calls
        IN  /\ taken[i].status = "skip"
            /\ c > 2
            /\ toks[c].t = "error"
            /\ IsMove(toks[c - 2])
            /\ toks[c - 1].a = "cp"

-----------------------------------------------------------------------------
(* C19 *)

\* the bytes of the first n lines of stdout, each with its newline
RECURSIVE BytesOf(_, _)
BytesOf(o, n) == IF n = 0 THEN 0 ELSE BytesOf(o, n - 1) + StrLen(o[n]) + 1

\* C19: at every moment pos_count is the number of lines written to stdout
\* and bytes_count the sum of their lengths plus one each; a Batch with no
\* line, and a Record for which no Batch comes, add nothing to either.
C19_Totals ==
    /\ pos_count = Len(out)
    /\ bytes_count = BytesOf(out, Len(out))
    /\ \A k \in DOMAIN err :
          /\ err[k].pos_count <= pos_count
          /\ err[k].bytes_count <= bytes_count

\* the collector has processed an empty Batch and a Batch of two lines, one
\* of them with a negative score
C19_Witness ==
    /\ \E k \in DOMAIN popped : popped[k] = <<>>
    /\ \E k \in DOMAIN popped : Len(popped[k]) = 2
    /\ \E n \in DOMAIN out : out[n].score < 0
    /\ pos_count = 2

-----------------------------------------------------------------------------
(* C20 *)

\* C20: the splitter is never blocked for good: whenever main is inside
\* in_queue.put with the queue full, some worker is still in its loop, to
\* get a Record from the queue now or after it has put the Batch it holds.
C20_SplitterNeverStuck ==
    (pc = "put" /\ ~CanPut(in_queue)) =>
        \E w \in Workers : wpc[w] \in {"get", "put"}

====
